---- MODULE Spec2Model ----
(***************************************************************************)
(* Model of src/main.py: the line classifier inside create_pdf (lines      *)
(* 179-225) and the display/download section of the page script (lines     *)
(* 449-511).                                                               *)
(*                                                                         *)
(* A text is a sequence of characters; a character is a one-element string *)
(* ("A", "|", "\n") or, for the three non-ASCII glyphs the classifier and   *)
(* the prompt use, a token: "EMDASH" (U+2014), "ENDASH" (U+2013), "BULLET" *)
(* (U+2022).  Each token is ONE character, as it is one code point for     *)
(* Python's len(), in and startswith().                                    *)
(***************************************************************************)
EXTENDS Integers, Sequences, FiniteSets, TLC

VARIABLES
    \* create_pdf (lines 102-225)
    resume_text,      \* the argument
    lines,            \* resume_text.split('\n')
    i,                \* number of lines the loop has consumed
    is_first_line,
    is_second_line,
    elements,         \* the flowables appended so far
    pc,               \* "idle", "loop", "returned", "raised"
    \* the page script (lines 51-55, 80-88, 307-519)
    session_state,    \* st.session_state
    page_pc,          \* position of the current script run
    generate_button,  \* line 305: whether this run was started by Generate
    widgets,          \* what the current script run has rendered, in order
    required_fields,  \* lines 309-320: the ten required form values of this run
    chain_invoke      \* line 433: whether this run called the LLM, and the result

pdfvars == <<resume_text, lines, i, is_first_line, is_second_line, elements, pc>>

formvars == <<required_fields, chain_invoke>>

pagevars == <<session_state, page_pc, generate_button, widgets, formvars>>

vars == <<pdfvars, pagevars>>

\* ------------------------------------------------------------------ bounds
MaxLines == 3

\* -------------------------------------------------------------- characters
UpperLetters == <<"A","B","C","D","E","F","G","H","I","J","K","L","M",
                 "N","O","P","Q","R","S","T","U","V","W","X","Y","Z">>

LowerLetters == <<"a","b","c","d","e","f","g","h","i","j","k","l","m",
                 "n","o","p","q","r","s","t","u","v","w","x","y","z">>

Upper == {UpperLetters[k] : k \in 1..26}

Lower == {LowerLetters[k] : k \in 1..26}

\* what str.strip() with no argument removes (of the characters modelled)
Whitespace == {" ", "\t", "\r", "\n"}

Rep(c, n) == [k \in 1..n |-> c]

\* --------------------------------------------------------- str operations
\* str.split('\n'): the pieces between consecutive newlines; a text with n
\* newlines always gives n+1 pieces, empty pieces included.
NewlinePositions(text) == {k \in 1..Len(text) : text[k] = "\n"}

NthNewline(text, n) ==
    IF n = 0 THEN 0
    ELSE IF n = Cardinality(NewlinePositions(text)) + 1 THEN Len(text) + 1
    ELSE CHOOSE p \in NewlinePositions(text) :
            Cardinality({q \in NewlinePositions(text) : q < p}) = n - 1

\* str.splitlines()-like: no final empty piece after a trailing newline
split_noTrailing(text) ==
    LET n == Cardinality(NewlinePositions(text))
        m == IF Len(text) > 0 /\ text[Len(text)] = "\n" THEN n ELSE n + 1
    IN  [k \in 1..m |->
            SubSeq(text, NthNewline(text, k - 1) + 1, NthNewline(text, k) - 1)]

split(text) ==
    [n \in 1..(Cardinality(NewlinePositions(text)) + 1) |->
        SubSeq(text, NthNewline(text, n - 1) + 1, NthNewline(text, n) - 1)]

\* str.strip(): drop leading and trailing whitespace
strip(line) ==
    LET white(k) == line[k] \in Whitespace
    IN  IF \A k \in 1..Len(line) : white(k) THEN <<>>
        ELSE SubSeq(line,
                    CHOOSE a \in 1..Len(line) :
                        ~white(a) /\ \A b \in 1..(a - 1) : white(b),
                    CHOOSE a \in 1..Len(line) :
                        ~white(a) /\ \A b \in (a + 1)..Len(line) : white(b))

\* str.replace(old, new) for a one-character old: every occurrence, left to
\* right (computed by halves to keep the evaluation shallow)
RECURSIVE replace(_, _, _)
replace(line, old, new) ==
    IF Len(line) = 0 THEN <<>>
    ELSE IF Len(line) = 1 THEN (IF line[1] = old THEN new ELSE line)
    ELSE LET h == Len(line) \div 2
         IN  replace(SubSeq(line, 1, h), old, new)
                \o replace(SubSeq(line, h + 1, Len(line)), old, new)

\* str.isupper(): no lower-case character and at least one cased character
isupper(line) ==
    /\ \A k \in 1..Len(line) : line[k] \notin Lower
    /\ \E k \in 1..Len(line) : line[k] \in Upper

\* str.lower()
lower(text) ==
    [k \in 1..Len(text) |->
        IF text[k] \in Upper
            THEN LowerLetters[CHOOSE n \in 1..26 : UpperLetters[n] = text[k]]
            ELSE text[k]]

contains(line, c) == \E k \in 1..Len(line) : line[k] = c

startswith(line, c) == Len(line) >= 1 /\ line[1] = c

\* '&' replaced last: the entities of '<' and '>' get escaped again
escape_ampLast(line) ==
    replace(replace(replace(line, "<", <<"&","l","t",";">>),
                    ">", <<"&","g","t",";">>),
            "&", <<"&","a","m","p",";">>)

\* line 191
escape(line) ==
    replace(replace(replace(line, "&", <<"&","a","m","p",";">>),
                    "<", <<"&","l","t",";">>),
            ">", <<"&","g","t",";">>)

\* ---------------------------------------------------------- program constants
NameMaxLen == 80

HeaderMinLen == 3

HeaderMaxLen == 50

\* line 216: the month tokens of the date/location test
MonthTokens ==
    {<<"0","1","/">>,
     <<"0","2","/">>,
     <<"0","3","/">>,
     <<"0","4","/">>,
     <<"0","5","/">>,
     <<"0","6","/">>,
     <<"0","7","/">>,
     <<"0","8","/">>,
     <<"0","9","/">>,
     <<"1","0","/">>,
     <<"1","1","/">>,
     <<"1","2","/">>,
     <<"P","r","e","s","e","n","t">>,
     <<"E","x","p","e","c","t","e","d">>}

contains_str(line, sub) ==
    \E k \in 1..(Len(line) - Len(sub) + 1) : SubSeq(line, k, k + Len(sub) - 1) = sub

\* ------------------------------------------------------ the classifier rules
\* the name accepted only in capitals
IsNameLine_upperOnly(line, first) ==
    first /\ isupper(line) /\ Len(line) < NameMaxLen

\* the length test left out
IsNameLine_noLen(line, first) == first

\* line 194
IsNameLine(line, first) == first /\ Len(line) < NameMaxLen

\* line 201
IsContactLine(line, second) == second /\ contains(line, "|")

\* the em-dash test put before the upper-case test
body_style_subFirst(line) ==
    IF contains(line, "EMDASH") /\ ~startswith(line, "BULLET")
        THEN "subheading_style"
    ELSE IF isupper(line) /\ Len(line) > HeaderMinLen /\ Len(line) < HeaderMaxLen
        THEN "heading_style"
    ELSE IF startswith(line, "BULLET")
        THEN "bullet_style"
    ELSE "normal_style"

\* lines 206-220: the style of a line that is neither Name nor Contact
body_style(line) ==
    IF isupper(line) /\ Len(line) > HeaderMinLen /\ Len(line) < HeaderMaxLen
        THEN "heading_style"
    ELSE IF contains(line, "EMDASH") /\ ~startswith(line, "BULLET")
        THEN "subheading_style"
    ELSE IF startswith(line, "BULLET")
        THEN "bullet_style"
    ELSE IF contains(line, "|") /\ \E m \in MonthTokens : contains_str(line, m)
        THEN "normal_style"
    ELSE "normal_style"

\* line 187: Spacer(1, 0.08*inch), a flowable without text
Spacer == [style |-> "Spacer", text |-> <<>>]

\* Paragraph(line_escaped, style)
Paragraph(text, style) == [style |-> style, text |-> text]

\* lines 196-197 and line 203: the flags after a Name and after a Contact line
\* is_first_line not cleared
FlagsAfterName_keepFirst == [first |-> TRUE, second |-> TRUE]

FlagsAfterName == [first |-> FALSE, second |-> TRUE]

FlagsAfterContact(first) == [first |-> first, second |-> FALSE]

\* ------------------------------------------------------------------- inputs
ScenarioA ==
    <<"J","A","N","E"," ","D","O","E","\n","N","e","w"," ","Y","o","r","k",
    ","," ","N","Y"," ","|"," ","5","5","5","-","1","2","3","4"," ","|"," ",
    "j","a","n","e","@","x",".","c","o","m","\n","\n","P","R","O","F","E",
    "S","S","I","O","N","A","L"," ","S","U","M","M","A","R","Y","\n","E",
    "x","p","e","r","i","e","n","c","e","d"," ","e","n","g","i","n","e","e",
    "r",".","\n","\n","E","X","P","E","R","I","E","N","C","E","\n","S","o",
    "f","t","w","a","r","e"," ","E","n","g","i","n","e","e","r"," ",
    "EMDASH"," ","A","c","m","e"," ","C","o","r","p","\n","N","Y","C"," ",
    "|"," ","0","1","/","2","0","2","0"," ","ENDASH"," ","P","r","e","s",
    "e","n","t","\n","BULLET"," ","B","u","i","l","t"," ","t","h","i","n",
    "g","s","\n">>

SampleLines ==
    { <<>>,
      <<" ", "\t">>,
      <<" ", "A", "B", "&", "C", " ">>,
      <<"A", "B", "C">>,
      <<"a", "|", "b">>,
      <<"A", "EMDASH", "B", "C">>,
      <<"BULLET", "a", "EMDASH">>,
      <<"a", "EMDASH", "<", "b", ">", "&", "l", "t", ";">>,
      Rep("A", 50),
      Rep("a", 80),
      Rep("A", 90) }

RECURSIVE join(_)
join(ls) ==
    IF Len(ls) = 1 THEN ls[1] ELSE ls[1] \o <<"\n">> \o join(Tail(ls))

Texts ==
    {join(ls) : ls \in UNION {[1..n -> SampleLines] : n \in 1..MaxLines}}
        \cup {ScenarioA}

\* ------------------------------------------------------------- create_pdf
\* lines 103-181: the state on entry to the loop
Init ==
    /\ resume_text \in Texts
    /\ lines = split(resume_text)
    /\ i = 0
    /\ is_first_line = TRUE
    /\ is_second_line = FALSE
    /\ elements = <<>>
    /\ pc = "loop"
    /\ session_state = [resume_generated |-> FALSE, generated_resume |-> <<>>]
    /\ page_pc = "none"
    /\ generate_button = FALSE
    /\ widgets = <<>>
    /\ required_fields = <<>>
    /\ chain_invoke = [status |-> "not_invoked", text |-> <<>>]

\* line 184: the stripped line the loop body works on
line == strip(lines[i + 1])

InLoop == pc = "loop" /\ i < Len(lines)

\* blank lines dropped without a spacer
BlankLine_skip ==
    /\ InLoop
    /\ line = <<>>
    /\ i' = i + 1
    /\ UNCHANGED <<resume_text, lines, is_first_line, is_second_line, pc, elements>>
    /\ UNCHANGED pagevars

\* lines 186-188
BlankLine ==
    /\ InLoop
    /\ line = <<>>
    /\ elements' = Append(elements, Spacer)
    /\ i' = i + 1
    /\ UNCHANGED <<resume_text, lines, is_first_line, is_second_line, pc>>
    /\ UNCHANGED pagevars

\* lines 193-198
NameLine ==
    /\ InLoop
    /\ line # <<>>
    /\ IsNameLine(line, is_first_line)
    /\ elements' = Append(elements, Paragraph(escape(line), "name_style"))
    /\ is_first_line' = FlagsAfterName.first
    /\ is_second_line' = FlagsAfterName.second
    /\ i' = i + 1
    /\ UNCHANGED <<resume_text, lines, pc>>
    /\ UNCHANGED pagevars

\* lines 200-204
ContactLine ==
    /\ InLoop
    /\ line # <<>>
    /\ ~IsNameLine(line, is_first_line)
    /\ IsContactLine(line, is_second_line)
    /\ elements' = Append(elements, Paragraph(escape(line), "contact_style"))
    /\ is_second_line' = FlagsAfterContact(is_first_line).second
    /\ is_first_line' = FlagsAfterContact(is_first_line).first
    /\ i' = i + 1
    /\ UNCHANGED <<resume_text, lines, pc>>
    /\ UNCHANGED pagevars

\* lines 206-220
StyledLine ==
    /\ InLoop
    /\ line # <<>>
    /\ ~IsNameLine(line, is_first_line)
    /\ ~IsContactLine(line, is_second_line)
    /\ elements' = Append(elements, Paragraph(escape(line), body_style(line)))
    /\ i' = i + 1
    /\ UNCHANGED <<resume_text, lines, is_first_line, is_second_line, pc>>
    /\ UNCHANGED pagevars

\* lines 223-225: doc.build(elements) succeeds and the buffer is returned
Build ==
    /\ pc = "loop"
    /\ i = Len(lines)
    /\ pc' = "returned"
    /\ UNCHANGED <<resume_text, lines, i, is_first_line, is_second_line, elements>>
    /\ UNCHANGED pagevars

\* line 223: doc.build(elements) raises; nothing is returned
BuildRaises ==
    /\ pc = "loop"
    /\ i = Len(lines)
    /\ pc' = "raised"
    /\ UNCHANGED <<resume_text, lines, i, is_first_line, is_second_line, elements>>
    /\ UNCHANGED pagevars

Next ==
    \/ BlankLine
    \/ NameLine
    \/ ContactLine
    \/ StyledLine
    \/ Build
    \/ BuildRaises

Spec == Init /\ [][Next]_vars

\* ----------------------------------------------------------- the page script
\* lines 52-55: the session state of a new (or cleared) session
NewSession == [resume_generated |-> FALSE, generated_resume |-> <<>>]

\* lines 309-320
RequiredFields ==
    {"Full Name", "Email", "Phone", "Location", "Education", "Job Title",
     "Job Description", "Skills", "Work Experience", "Projects"}

\* what the user may have typed: everything filled in, one required field
\* empty or white, nothing filled in
FieldInputs ==
    {[f \in RequiredFields |-> <<"x">>], [f \in RequiredFields |-> <<>>]}
        \cup {[f \in RequiredFields |-> IF f = g THEN b ELSE <<"x">>] :
                g \in RequiredFields, b \in {<<>>, <<" ">>}}

\* line 322
missing_fields(fields) == {f \in RequiredFields : strip(fields[f]) = <<>>}

\* what chain.invoke may return (line 433)
LLMOutputs ==
    { <<>>,
      <<" ", "\n">>,
      <<"s","a","f","e">>,
      <<" ","U","n","s","a","f","e","\n">>,
      <<"J","A","N","E","\n","a","|","b","\n","\n","S","K","I","L","L","S","\n","BULLET","x","<","y">>,
      <<"D","e","a","r"," ","S","i","r","\n","n","o"," ","r","e","s","u","m","e">>,
      ScenarioA }

\* line 436
IsBlocked(resume_output) ==
    /\ resume_output # <<>>
    /\ lower(strip(resume_output)) \in
        {<<"s","a","f","e">>, <<"u","n","s","a","f","e">>, <<>>}

Widget(kind, data) == [kind |-> kind, data |-> data]

InitPage ==
    /\ session_state = NewSession
    /\ page_pc = "idle"
    /\ generate_button = FALSE
    /\ widgets = <<>>
    /\ required_fields = [f \in RequiredFields |-> <<>>]
    /\ chain_invoke = [status |-> "not_invoked", text |-> <<>>]
    /\ resume_text = <<>>
    /\ lines = <<>>
    /\ i = 0
    /\ is_first_line = TRUE
    /\ is_second_line = FALSE
    /\ elements = <<>>
    /\ pc = "idle"

\* line 433: the call of this run: not made, raised, or returned a text
NotInvoked == [status |-> "not_invoked", text |-> <<>>]

Raised == [status |-> "raised", text |-> <<>>]

Returned(resume_output) == [status |-> "returned", text |-> resume_output]

\* a user interaction starts a script run from the top; the run was started
\* by the Generate button (line 305) or by any other widget, with whatever
\* the form holds at that moment (lines 233-284)
Rerun ==
    /\ page_pc = "idle"
    /\ generate_button' \in BOOLEAN
    /\ required_fields' \in FieldInputs
    /\ chain_invoke' = NotInvoked
    /\ widgets' = <<>>
    /\ page_pc' = "top"
    /\ UNCHANGED <<session_state, pdfvars>>

\* lines 80-83, then lines 52-55 of the run st.rerun() starts
ClearAllData ==
    /\ page_pc = "idle"
    /\ session_state' = NewSession
    /\ generate_button' = FALSE
    /\ required_fields' \in FieldInputs
    /\ chain_invoke' = NotInvoked
    /\ widgets' = <<>>
    /\ page_pc' = "top"
    /\ UNCHANGED pdfvars

\* lines 86-88: no API key, the run stops
StopNoKey ==
    /\ page_pc = "top"
    /\ widgets' = Append(widgets, Widget("warning", <<>>))
    /\ page_pc' = "idle"
    /\ UNCHANGED <<session_state, generate_button, pdfvars, formvars>>

\* line 307 false
SkipGenerate ==
    /\ page_pc = "top"
    /\ ~generate_button
    /\ page_pc' = "display"
    /\ UNCHANGED <<session_state, generate_button, widgets, pdfvars, formvars>>

\* lines 307-325
GenerateMissing ==
    /\ page_pc = "top"
    /\ generate_button
    /\ missing_fields(required_fields) # {}
    /\ widgets' = Append(widgets, Widget("error_missing", <<>>))
    /\ page_pc' = "display"
    /\ UNCHANGED <<session_state, generate_button, pdfvars, formvars>>

\* lines 326-433 and 444-446: chain.invoke raises
GenerateRaises ==
    /\ page_pc = "top"
    /\ generate_button
    /\ missing_fields(required_fields) = {}
    /\ chain_invoke' = Raised
    /\ widgets' = Append(widgets, Widget("error_generating", <<>>))
    /\ page_pc' = "display"
    /\ UNCHANGED <<session_state, generate_button, pdfvars, required_fields>>

\* lines 326-438
GenerateBlocked ==
    /\ page_pc = "top"
    /\ generate_button
    /\ missing_fields(required_fields) = {}
    /\ \E resume_output \in LLMOutputs :
        /\ IsBlocked(resume_output)
        /\ chain_invoke' = Returned(resume_output)
    /\ widgets' = Append(widgets, Widget("error_moderation", <<>>))
    /\ page_pc' = "display"
    /\ UNCHANGED <<session_state, generate_button, pdfvars, required_fields>>

\* lines 326-436 and 439-442
GenerateSuccess ==
    /\ page_pc = "top"
    /\ generate_button
    /\ missing_fields(required_fields) = {}
    /\ \E resume_output \in LLMOutputs :
        /\ ~IsBlocked(resume_output)
        /\ chain_invoke' = Returned(resume_output)
        /\ session_state' = [resume_generated |-> TRUE,
                             generated_resume |-> resume_output]
    /\ widgets' = Append(widgets, Widget("success", <<>>))
    /\ page_pc' = "display"
    /\ UNCHANGED <<generate_button, pdfvars, required_fields>>

\* line 449
Displayed == session_state.resume_generated /\ session_state.generated_resume # <<>>

\* lines 449-476: the text area and the TXT download button, then the call
\* of create_pdf up to the entry of its loop (lines 103-181)
DisplayResume ==
    /\ page_pc = "display"
    /\ Displayed
    /\ widgets' = widgets
            \o <<Widget("text_area", session_state.generated_resume),
                 Widget("download_txt", session_state.generated_resume)>>
    /\ resume_text' = session_state.generated_resume
    /\ lines' = split(session_state.generated_resume)
    /\ i' = 0
    /\ is_first_line' = TRUE
    /\ is_second_line' = FALSE
    /\ elements' = <<>>
    /\ pc' = "loop"
    /\ page_pc' = "pdf"
    /\ UNCHANGED <<session_state, generate_button, formvars>>

\* line 449 false, then lines 513-519
SkipDisplay ==
    /\ page_pc = "display"
    /\ ~Displayed
    /\ widgets' = Append(widgets, Widget("footer", <<>>))
    /\ page_pc' = "idle"
    /\ UNCHANGED <<session_state, generate_button, pdfvars, formvars>>

\* lines 477-483: create_pdf returned, the PDF download button
PdfDownload ==
    /\ page_pc = "pdf"
    /\ pc = "returned"
    /\ widgets' = Append(widgets, Widget("download_pdf", elements))
    /\ page_pc' = "tips"
    /\ UNCHANGED <<session_state, generate_button, pdfvars, formvars>>

\* the exception not caught: the script run ends where it was raised
PdfError_uncaught ==
    /\ page_pc = "pdf"
    /\ pc = "raised"
    /\ widgets' = Append(widgets, Widget("exception", <<>>))
    /\ page_pc' = "idle"
    /\ UNCHANGED <<session_state, generate_button, pdfvars, formvars>>

\* lines 484-485: create_pdf raised, st.error
PdfError ==
    /\ page_pc = "pdf"
    /\ pc = "raised"
    /\ widgets' = Append(widgets, Widget("error_pdf", <<>>))
    /\ page_pc' = "tips"
    /\ UNCHANGED <<session_state, generate_button, pdfvars, formvars>>

\* lines 487-519: the tips section and the footer
TipsAndFooter ==
    /\ page_pc = "tips"
    /\ widgets' = widgets \o <<Widget("tips", <<>>), Widget("footer", <<>>)>>
    /\ page_pc' = "idle"
    /\ UNCHANGED <<session_state, generate_button, pdfvars, formvars>>

NextPage ==
    \/ Rerun
    \/ ClearAllData
    \/ StopNoKey
    \/ SkipGenerate
    \/ GenerateMissing
    \/ GenerateRaises
    \/ GenerateBlocked
    \/ GenerateSuccess
    \/ DisplayResume
    \/ SkipDisplay
    \/ BlankLine
    \/ NameLine
    \/ ContactLine
    \/ StyledLine
    \/ Build
    \/ BuildRaises
    \/ PdfDownload
    \/ PdfError
    \/ TipsAndFooter

SpecPage == InitPage /\ [][NextPage]_vars

\* ---------------------------------------------------------------- vocabulary
\* the role a flowable stands for
RoleOf(e) ==
    CASE e.style = "Spacer"           -> "Blank"
      [] e.style = "name_style"       -> "Name"
      [] e.style = "contact_style"    -> "ContactLine"
      [] e.style = "heading_style"    -> "SectionHeader"
      [] e.style = "subheading_style" -> "SubHeading"
      [] e.style = "bullet_style"     -> "Bullet"
      [] e.style = "normal_style"     -> "Body"

Roles == [k \in 1..Len(elements) |-> RoleOf(elements[k])]

\* a line that is empty after trimming
IsBlank(l) == \A k \in 1..Len(l) : l[k] \in Whitespace

Finished == pc \in {"returned", "raised"}

\* position of the first non-blank line of the document, 0 if there is none
FirstNonBlank ==
    IF \A k \in 1..Len(lines) : IsBlank(lines[k]) THEN 0
    ELSE CHOOSE k \in 1..Len(lines) :
            ~IsBlank(lines[k]) /\ \A m \in 1..(k - 1) : IsBlank(lines[m])

\* decoding of the three entities in one left-to-right pass.  An entity
\* starts with '&' and has no '&' inside, so occurrences never overlap: the
\* character at an entity's start is replaced and the rest of it dropped.
EntityAt(t, k) ==
    IF k < 1 \/ t[k] # "&" THEN <<>>
    ELSE IF k + 4 <= Len(t) /\ SubSeq(t, k, k + 4) = <<"&","a","m","p",";">>
        THEN <<"&", 5>>
    ELSE IF k + 3 <= Len(t) /\ SubSeq(t, k, k + 3) = <<"&","l","t",";">>
        THEN <<"<", 4>>
    ELSE IF k + 3 <= Len(t) /\ SubSeq(t, k, k + 3) = <<"&","g","t",";">>
        THEN <<">", 4>>
    ELSE <<>>

Keep(c) == c # "DROP"

Unescape(t) ==
    SelectSeq([k \in 1..Len(t) |->
                 IF EntityAt(t, k) # <<>> THEN EntityAt(t, k)[1]
                 ELSE IF \E d \in 1..4 :
                            EntityAt(t, k - d) # <<>> /\ EntityAt(t, k - d)[2] > d
                      THEN "DROP"
                 ELSE t[k]],
              Keep)

\* every character replaced on its own, in one pass
Entity(c) ==
    CASE c = "&" -> <<"&","a","m","p",";">>
      [] c = "<" -> <<"&","l","t",";">>
      [] c = ">" -> <<"&","g","t",";">>
      [] OTHER   -> <<c>>

RECURSIVE EntityText(_)
EntityText(l) ==
    IF Len(l) = 0 THEN <<>>
    ELSE IF Len(l) = 1 THEN Entity(l[1])
    ELSE LET h == Len(l) \div 2
         IN  EntityText(SubSeq(l, 1, h)) \o EntityText(SubSeq(l, h + 1, Len(l)))

\* --------------------------------------------------------------------- C1
\* C1: a ContactLine can only be the first non-blank line following the Name
\* line: if that line has no '|' the contact expectation is cleared anyway and
\* no later line of the document is classified ContactLine.
C1_ContactOnlyRightAfterName ==
    \A k \in 1..Len(elements) :
        elements[k].style = "contact_style" =>
            \E n \in 1..(k - 1) :
                /\ elements[n].style = "name_style"
                /\ \A m \in (n + 1)..(k - 1) : IsBlank(lines[m])

\* --------------------------------------------------------------------- C2
\* C2: no line other than the first non-blank line of the document is
\* classified Name, also when that first non-blank line is 80 or more
\* characters long and so not Name itself.
C2_NameOnlyFirstNonBlank ==
    \A k \in 1..Len(elements) :
        elements[k].style = "name_style" => k = FirstNonBlank

\* --------------------------------------------------------------------- C3
\* C3: classification emits exactly one element per line of the text split
\* on newline, in input order (after every loop step the elements are as many
\* as the lines consumed, and a finished pass has one per line); an element
\* is a Spacer (Blank) iff its line is empty after trimming.
C3_OneRolePerLine ==
    /\ Len(elements) = i
    /\ Finished => Len(elements) = Cardinality(NewlinePositions(resume_text)) + 1
    /\ \A k \in 1..Len(elements) :
        /\ (elements[k] = Spacer) <=> IsBlank(lines[k])
        /\ (RoleOf(elements[k]) = "Blank") <=> IsBlank(lines[k])
        /\ ~IsBlank(lines[k]) => Unescape(elements[k].text) = strip(lines[k])

C3_Witness ==
    /\ pc = "returned"
    /\ Len(elements) = 3
    /\ lines[1] # <<>> /\ IsBlank(lines[1])
    /\ ~IsBlank(lines[2])
    /\ lines[3] = <<>>

\* --------------------------------------------------------------------- C4
\* C4: a first non-blank line shorter than 80 characters after trimming is
\* classified Name whatever it contains and however many blank lines precede.
C4_FirstNonBlankShortIsName ==
    \A k \in 1..Len(elements) :
        (k = FirstNonBlank /\ Len(strip(lines[k])) < 80)
            => elements[k].style = "name_style"

C4_Witness ==
    /\ Len(elements) = 3
    /\ FirstNonBlank = 3
    /\ contains(lines[3], "|")
    /\ ~isupper(lines[3])
    /\ elements[3].style = "name_style"

\* --------------------------------------------------------------------- C5
\* C5: the header-zone state only moves AwaitingName -> AwaitingContact ->
\* Steady, a Blank line leaves both flags unchanged, and a document has at
\* most one Name and at most one ContactLine, the ContactLine after the Name.
HeaderZone ==
    IF is_first_line /\ ~is_second_line THEN "AwaitingName"
    ELSE IF ~is_first_line /\ is_second_line THEN "AwaitingContact"
    ELSE IF ~is_first_line /\ ~is_second_line THEN "Steady"
    ELSE "Invalid"

C5_Step ==
    /\ \/ HeaderZone' = HeaderZone
       \/ HeaderZone = "AwaitingName" /\ HeaderZone' = "AwaitingContact"
       \/ HeaderZone = "AwaitingContact" /\ HeaderZone' = "Steady"
    /\ (Len(elements') = Len(elements) + 1
            /\ elements'[Len(elements')].style = "Spacer")
        => (is_first_line' = is_first_line /\ is_second_line' = is_second_line)

C5_Counts ==
    /\ HeaderZone # "Invalid"
    /\ Cardinality({k \in 1..Len(elements) : elements[k].style = "name_style"}) <= 1
    /\ Cardinality({k \in 1..Len(elements) : elements[k].style = "contact_style"}) <= 1
    /\ \A k \in 1..Len(elements) :
        elements[k].style = "contact_style" =>
            \E n \in 1..(k - 1) : elements[n].style = "name_style"

C5_OneWayHeaderZone == [][C5_Step /\ C5_Counts /\ C5_Counts']_vars

C5_Witness ==
    /\ pc = "returned"
    /\ HeaderZone = "Steady"
    /\ Len(elements) = 3
    /\ elements[1].style = "name_style"
    /\ elements[2].style = "Spacer"
    /\ elements[3].style = "contact_style"

\* --------------------------------------------------------------------- C6
\* C6: a non-blank line not taken as Name or ContactLine gets its role
\* first-match-wins: SectionHeader (upper-case, 3 < length < 50), SubHeading
\* (em-dash, not starting with the bullet glyph), Bullet (starts with the
\* bullet glyph), else Body; upper-case with an em-dash is SectionHeader.
C6_Precedence ==
    \A k \in 1..Len(elements) :
        LET l   == strip(lines[k])
            r   == RoleOf(elements[k])
            hdr == isupper(l) /\ 3 < Len(l) /\ Len(l) < 50
            sub == contains(l, "EMDASH") /\ l[1] # "BULLET"
            bul == l[1] = "BULLET"
        IN  r \notin {"Blank", "Name", "ContactLine"} =>
                /\ hdr => r = "SectionHeader"
                /\ (~hdr /\ sub) => r = "SubHeading"
                /\ (~hdr /\ ~sub /\ bul) => r = "Bullet"
                /\ (~hdr /\ ~sub /\ ~bul) => r = "Body"

C6_Witness ==
    /\ Len(elements) = 3
    /\ RoleOf(elements[2]) = "SectionHeader"
    /\ contains(lines[2], "EMDASH")
    /\ RoleOf(elements[3]) = "Bullet"
    /\ contains(lines[3], "EMDASH")

\* --------------------------------------------------------------------- C7
\* C7 (as stated): the scenario-A text, which ends with a newline, yields
\* exactly the ten roles Name, ContactLine, Blank, SectionHeader, Body, Blank,
\* SectionHeader, SubHeading, Body, Bullet.
C7_ScenarioA_TenRoles ==
    (Finished /\ resume_text = ScenarioA) =>
        Roles = <<"Name", "ContactLine", "Blank", "SectionHeader", "Body",
                  "Blank", "SectionHeader", "SubHeading", "Body", "Bullet">>

\* C7 (amended): the scenario-A text yields eleven roles: the ten above and a
\* final Blank for the empty piece after the trailing newline.
C7_ScenarioA_ElevenRoles ==
    (Finished /\ resume_text = ScenarioA) =>
        Roles = <<"Name", "ContactLine", "Blank", "SectionHeader", "Body",
                  "Blank", "SectionHeader", "SubHeading", "Body", "Bullet",
                  "Blank">>

C7_Witness ==
    /\ pc = "returned"
    /\ resume_text = ScenarioA
    /\ resume_text[Len(resume_text)] = "\n"
    /\ Len(elements) = Len(lines)

\* --------------------------------------------------------------------- C8
\* C8: the text of a non-blank line's element is the trimmed line with '&',
\* '<', '>' replaced by their entities, each character once: it has no raw
\* '<' or '>', unescaping it gives the trimmed line back, and the role is the
\* one the rules give on the unescaped trimmed line.
C8_Escaping ==
    \A k \in 1..Len(elements) :
        LET t == elements[k].text
            u == Unescape(t)
            r == RoleOf(elements[k])
            l == strip(lines[k])
        IN  r # "Blank" =>
                /\ t = EntityText(l)
                /\ ~contains(t, "<") /\ ~contains(t, ">")
                /\ u = l
                /\ r = "Name" => Len(u) < 80
                /\ r = "ContactLine" => contains(u, "|")
                /\ r \notin {"Name", "ContactLine"} =>
                    (r = "SectionHeader" <=>
                        (isupper(u) /\ 3 < Len(u) /\ Len(u) < 50))

C8_Witness ==
    /\ Len(elements) = 3
    /\ elements[2].style = "heading_style"
    /\ contains(lines[2], "&")
    /\ contains(lines[3], "<") /\ contains(lines[3], ">")
    /\ contains_str(lines[3], <<"&","l","t",";">>)
    /\ contains_str(elements[3].text, <<"&","a","m","p",";","l","t",";">>)

\* --------------------------------------------------------------------- C9
\* C9: a 90-character line of upper-case text without '|', em-dash or bullet
\* glyph is classified Body, never Name or SectionHeader, whether it is the
\* first non-blank line or the line right after it.
C9_LongUpperIsBody ==
    \A k \in 1..Len(elements) :
        LET l == strip(lines[k])
        IN  (/\ Len(l) = 90
             /\ isupper(l)
             /\ ~contains(l, "|") /\ ~contains(l, "EMDASH")
             /\ ~contains(l, "BULLET"))
                => RoleOf(elements[k]) = "Body"

C9_Witness ==
    /\ Len(elements) = 3
    /\ lines[1] = Rep("A", 90) /\ lines[2] = Rep("A", 90)
    /\ RoleOf(elements[1]) = "Body" /\ RoleOf(elements[2]) = "Body"
    /\ is_first_line
\* -------------------------------------------------------------------- C10
\* C10: whenever a stored resume is displayed, the TXT download of the stored
\* text, unmodified, is offered before and independently of PDF rendering; if
\* create_pdf raises, one error is reported, no PDF download is offered, the
\* TXT download stays offered and the rest of the page run (tips, footer)
\* is rendered.
Kinds == [k \in 1..Len(widgets) |-> widgets[k].kind]

Count(kind) == Cardinality({k \in 1..Len(widgets) : widgets[k].kind = kind})

RunEnded == page_pc = "idle" /\ widgets # <<>>

C10_TxtSurvivesPdfFailure ==
    /\ \A k \in 1..Len(widgets) :
        widgets[k].kind = "text_area" =>
            /\ k < Len(widgets)
            /\ widgets[k + 1] = Widget("download_txt", session_state.generated_resume)
            /\ \A m \in 1..(k + 1) :
                widgets[m].kind \notin {"download_pdf", "error_pdf"}
    /\ Count("download_pdf") > 0 => (pc = "returned" /\ Len(elements) = Len(lines))
    /\ (pc = "raised" /\ Count("text_area") > 0) =>
        /\ Count("download_pdf") = 0
        /\ Count("download_txt") = 1
        /\ Count("error_pdf") <= 1
        /\ RunEnded =>
            /\ Count("error_pdf") = 1
            /\ SubSeq(Kinds, Len(widgets) - 4, Len(widgets)) =
                <<"text_area", "download_txt", "error_pdf", "tips", "footer">>

C10_Witness ==
    /\ RunEnded
    /\ pc = "raised"
    /\ Count("error_pdf") = 1
    /\ Count("download_txt") = 1
    /\ Count("success") = 1
    /\ Len(elements) = Len(lines) /\ Len(lines) > 1

\* -------------------------------------------------------------------- C11
\* C11: in any sequence of Generate clicks, an attempt that does not report
\* success (a required field is blank, the LLM call raises, or the output
\* trims to 'safe', 'unsafe' or the empty text) leaves resume_generated and
\* generated_resume as they were, so a stored resume stays stored and
\* displayed; only a reported success overwrites them; and the LLM is called
\* only when none of the ten required fields is blank.
GenerateAttempt == page_pc = "top" /\ generate_button /\ page_pc' = "display"

SomeFieldBlank ==
    \E f \in RequiredFields : IsBlank(required_fields[f])

TrimsToBlocked(text) ==
    LET kept == {k \in 1..Len(text) : text[k] \notin Whitespace}
    IN  \/ kept = {}
        \/ LET t == lower(SubSeq(text,
                        CHOOSE a \in kept : \A b \in kept : a <= b,
                        CHOOSE a \in kept : \A b \in kept : a >= b))
           IN  t = <<"s","a","f","e">> \/ t = <<"u","n","s","a","f","e">>

C11_Step ==
    GenerateAttempt =>
        LET success == widgets'[Len(widgets')].kind = "success"
            failed  == \/ SomeFieldBlank
                       \/ chain_invoke'.status = "raised"
                       \/ /\ chain_invoke'.status = "returned"
                          /\ TrimsToBlocked(chain_invoke'.text)
        IN  /\ failed => ~success
            /\ ~success => session_state' = session_state
            /\ (Displayed /\ ~success) => Displayed'
            /\ session_state' # session_state => success
            /\ chain_invoke'.status # "not_invoked" => ~SomeFieldBlank

C11_FailedAttemptKeepsResume == [][C11_Step]_vars
====
